---- MODULE Spec2Model ----
(***************************************************************************)
(* Forvo Pronunciation MCP server (server/index.js): tool dispatch, input  *)
(* validation, the rawGet HTTP helper and the response shaping of the five *)
(* tool handlers.                                                          *)
(*                                                                         *)
(* JavaScript values are records [t |-> <typeof tag>, v |-> <payload>];    *)
(* strings are sequences of one-character strings so that length and trim  *)
(* are computed, not assumed.                                              *)
(***************************************************************************)
EXTENDS Integers, Sequences, FiniteSets, TLC

VARIABLES
    FORVO_API_KEY,  \* process.env.FORVO_API_KEY || "" (fixed at startup)
    phase,          \* dispatch state: Idle, Dispatching, Success, Failure, Fault
    name,           \* request.params.name of the call being served
    args,           \* request.params.arguments of the call being served
    pc,             \* where the handler is suspended: none, awaitApi, awaitAudio, rawGet
    frame,          \* the handler's locals that live across an await
    requests,       \* HTTP requests issued on behalf of the current call
    sent,           \* params object handed to forvoRequest by the current call
    response,       \* what the request handler returned (or that it threw)
    start,          \* URL the pending rawGet was called with
    url,            \* URL of the hop currently in flight
    req,            \* state of the hop in flight: none, sent, body
    res,            \* response headers of the hop in flight
    promise,        \* the promise rawGet returned: pending, resolved, rejected
    idle,           \* ticks of socket inactivity on the hop in flight
    stale,          \* inactivity of the oldest earlier hop whose socket is still open (-1: none)
    elapsed,        \* ticks since rawGet was called (saturating)
    batch           \* the batch download in progress: words, per-item tasks, payload

vars == <<FORVO_API_KEY, phase, name, args, pc, frame, requests, sent, response,
          start, url, req, res, promise, idle, stale, elapsed, batch>>

dispatchVars == <<phase, name, args, pc, frame, requests, sent, response>>
httpVars == <<start, url, req, res, promise, idle, stale, elapsed>>

----------------------------------------------------------------------------
(* Bounds of the model *)

\* the deadline HTTP_TIMEOUT_MS is divided into this many clock ticks
TicksPerTimeout == 2
\* longest items list the provider returns in the model
MaxItems == 2
\* most "data" events one response body is delivered in
MaxChunks == 1

(* Program constants *)

HTTP_TIMEOUT_MS == 15000
StringMaxLen == 200
LimitMax == 50
RateMax == 5
CountryLen == 3
LanguageMin == 2
LanguageMax == 5
MinPronunciationsMax == 999999
DownloadLimit == 5

----------------------------------------------------------------------------
(* JavaScript values *)

Undefined == [t |-> "undefined", v |-> 0]
Null == [t |-> "null", v |-> 0]
Num(n) == [t |-> "number", v |-> n]
\* a finite number that is not an integer (v is its floor)
Frac(n) == [t |-> "fraction", v |-> n]
NaN == [t |-> "NaN", v |-> 0]
Bool(b) == [t |-> "boolean", v |-> b]
Str(s) == [t |-> "string", v |-> s]

Chars(n, c) == [i \in 1..n |-> c]

\* a === b on primitives
StrictEq(a, b) == a.t = b.t /\ a.v = b.v

IsNullish(value) == value.t \in {"undefined", "null"}

\* ToBoolean
Truthy(value) ==
    CASE value.t \in {"undefined", "null", "NaN"} -> FALSE
      [] value.t = "number" -> value.v # 0
      [] value.t = "fraction" -> TRUE
      [] value.t = "boolean" -> value.v
      [] value.t = "string" -> Len(value.v) > 0

Whitespace == {" "}

RECURSIVE TrimStart(_)
TrimStart(s) ==
    IF s = <<>> THEN s
    ELSE IF Head(s) \in Whitespace THEN TrimStart(Tail(s)) ELSE s

RECURSIVE TrimEnd(_)
TrimEnd(s) ==
    IF s = <<>> THEN s
    ELSE IF s[Len(s)] \in Whitespace THEN TrimEnd(SubSeq(s, 1, Len(s) - 1)) ELSE s

\* String.prototype.trim
Trim(s) == TrimEnd(TrimStart(s))

Digit(d) ==
    CASE d = 0 -> "0" [] d = 1 -> "1" [] d = 2 -> "2" [] d = 3 -> "3" [] d = 4 -> "4"
      [] d = 5 -> "5" [] d = 6 -> "6" [] d = 7 -> "7" [] d = 8 -> "8" [] d = 9 -> "9"

RECURSIVE Digits(_)
Digits(n) == IF n < 10 THEN <<Digit(n)>> ELSE Append(Digits(n \div 10), Digit(n % 10))

\* String(value)
JsString(value) ==
    CASE value.t = "string" -> value.v
      [] value.t = "number" ->
            IF value.v < 0 THEN <<"-">> \o Digits(0 - value.v) ELSE Digits(value.v)
      [] value.t = "fraction" -> Digits(value.v) \o <<".", "5">>
      [] value.t = "NaN" -> <<"N", "a", "N">>
      [] value.t = "boolean" ->
            IF value.v THEN <<"t", "r", "u", "e">> ELSE <<"f", "a", "l", "s", "e">>
      [] value.t = "null" -> <<"n", "u", "l", "l">>
      [] value.t = "undefined" -> <<"u", "n", "d", "e", "f", "i", "n", "e", "d">>

DigitVal(c) ==
    CASE c = "0" -> 0 [] c = "1" -> 1 [] c = "2" -> 2 [] c = "3" -> 3 [] c = "4" -> 4
      [] c = "5" -> 5 [] c = "6" -> 6 [] c = "7" -> 7 [] c = "8" -> 8 [] c = "9" -> 9
      [] OTHER -> -1

RECURSIVE ParseDigits(_, _)
ParseDigits(s, acc) ==
    IF s = <<>> THEN acc
    ELSE IF DigitVal(Head(s)) < 0 THEN -1
    ELSE ParseDigits(Tail(s), 10 * acc + DigitVal(Head(s)))

\* Number(value), for the values the model feeds it
JsNumber(value) ==
    CASE value.t \in {"number", "fraction", "NaN"} -> value
      [] value.t = "boolean" -> Num(IF value.v THEN 1 ELSE 0)
      [] value.t = "null" -> Num(0)
      [] value.t = "undefined" -> NaN
      [] value.t = "string" ->
            LET s == Trim(value.v) IN
            IF s = <<>> THEN Num(0)
            ELSE IF ParseDigits(s, 0) >= 0 THEN Num(ParseDigits(s, 0)) ELSE NaN

----------------------------------------------------------------------------
(* Errors: new Error(message).  The message is kept as its parts. *)

NoText == [kind |-> "none", items |-> <<>>, hasItems |-> FALSE]

Error(subject, text) == [subject |-> subject, text |-> text, num |-> 0, body |-> NoText]

Thrown(err) == [ok |-> FALSE, err |-> err, val |-> Undefined]
Returned(value) == [ok |-> TRUE, err |-> Error("", ""), val |-> value]

----------------------------------------------------------------------------
(* Input validation *)

\* validateString returning the value as it came, untrimmed
validateStringUntrimmed(value, subject, minLen, maxLen) ==
    IF value.t # "string" \/ Len(Trim(value.v)) = 0
    THEN Thrown(Error(subject, "is required and must be a non-empty string"))
    ELSE LET trimmed == Trim(value.v) IN
         IF Len(trimmed) < minLen \/ Len(trimmed) > maxLen
         THEN Thrown(Error(subject, "must be between minLen and maxLen characters"))
         ELSE Returned(value)

validateString(value, subject, minLen, maxLen) ==
    IF value.t # "string" \/ Len(Trim(value.v)) = 0
    THEN Thrown(Error(subject, "is required and must be a non-empty string"))
    ELSE LET trimmed == Trim(value.v) IN
         IF Len(trimmed) < minLen \/ Len(trimmed) > maxLen
         THEN Thrown(Error(subject, "must be between minLen and maxLen characters"))
         ELSE Returned(Str(trimmed))

DEFAULT_LANGUAGE == <<"j", "a">>

validateLanguage(value) ==
    IF IsNullish(value) THEN Returned(Str(DEFAULT_LANGUAGE))
    ELSE LET lang == Trim(JsString(value)) IN
         IF Len(lang) < LanguageMin \/ Len(lang) > LanguageMax
         THEN Thrown(Error("language", "must be a 2-5 character code (e.g. 'ja', 'en')"))
         ELSE Returned(Str(lang))

validateSex(value) ==
    IF IsNullish(value) THEN Returned(Undefined)
    ELSE IF ~StrictEq(value, Str(<<"m">>)) /\ ~StrictEq(value, Str(<<"f">>))
         THEN Thrown(Error("sex", "must be 'm' or 'f'"))
         ELSE Returned(value)

validateOrder(value, allowed) ==
    IF IsNullish(value) THEN Returned(allowed[1])
    ELSE IF \A i \in 1..Len(allowed) : ~StrictEq(allowed[i], value)
         THEN Thrown(Error("order", "must be one of: allowed"))
         ELSE Returned(value)

validateInt(value, subject, min, max, defaultVal) ==
    IF IsNullish(value) THEN Returned(defaultVal)
    ELSE LET n == JsNumber(value) IN
         IF n.t # "number" \/ n.v < min \/ n.v > max
         THEN Thrown(Error(subject, "must be an integer between min and max"))
         ELSE Returned(n)

----------------------------------------------------------------------------
(* Request arguments and the params object of an API request *)

NoArgs ==
    [word |-> Undefined, language |-> Undefined, sex |-> Undefined, order |-> Undefined,
     limit |-> Undefined, min_rate |-> Undefined, country |-> Undefined,
     search |-> Undefined, min_pronunciations |-> Undefined]

NoParams ==
    [word |-> Undefined, language |-> Undefined, order |-> Undefined, limit |-> Undefined,
     country |-> Undefined, sex |-> Undefined, rate |-> Undefined, search |-> Undefined,
     minPronunciations |-> Undefined]

ParamKeys == DOMAIN NoParams

RATE_DESC == Str(<<"r", "a", "t", "e", "-", "d", "e", "s", "c">>)
RATE_ASC == Str(<<"r", "a", "t", "e", "-", "a", "s", "c">>)
DATE_DESC == Str(<<"d", "a", "t", "e", "-", "d", "e", "s", "c">>)
DATE_ASC == Str(<<"d", "a", "t", "e", "-", "a", "s", "c">>)
ORDER_NAME == Str(<<"n", "a", "m", "e">>)
ORDER_CODE == Str(<<"c", "o", "d", "e">>)

PronunciationOrders == <<RATE_DESC, RATE_ASC, DATE_DESC, DATE_ASC>>
LanguageOrders == <<ORDER_NAME, ORDER_CODE>>

\* the first validator that threw decides; otherwise the params object
FirstThrown(results) ==
    LET bad == {i \in 1..Len(results) : ~results[i].ok} IN
    IF bad = {} THEN Returned(Undefined)
    ELSE results[CHOOSE i \in bad : \A j \in bad : i <= j]

Prepared(action, params, word, language, sex) ==
    [ok |-> TRUE, err |-> Error("", ""), action |-> action, params |-> params,
     word |-> word, language |-> language, sex |-> sex]
Rejected(err) ==
    [ok |-> FALSE, err |-> err, action |-> "", params |-> NoParams,
     word |-> Undefined, language |-> Undefined, sex |-> Undefined]

\* handleWordPronunciations up to its forvoRequest call
prepareWordPronunciations(a) ==
    LET word == validateString(a.word, "word", 1, StringMaxLen)
        language == validateLanguage(a.language)
        sex == validateSex(a.sex)
        order == validateOrder(a.order, PronunciationOrders)
        limit == validateInt(a.limit, "limit", 1, LimitMax, Num(5))
        minRate == validateInt(a.min_rate, "min_rate", 0, RateMax, Undefined)
        country == IF Truthy(a.country)
                   THEN validateString(a.country, "country", CountryLen, CountryLen)
                   ELSE Returned(Undefined)
        first == FirstThrown(<<word, language, sex, order, limit, minRate, country>>)
    IN  IF ~first.ok THEN Rejected(first.err)
        ELSE Prepared("word-pronunciations",
                      [NoParams EXCEPT !.word = word.val, !.language = language.val,
                                       !.order = order.val, !.limit = limit.val,
                                       !.country = country.val,
                                       !.sex = IF Truthy(sex.val) THEN sex.val ELSE Undefined,
                                       !.rate = minRate.val],
                      word.val, language.val, sex.val)

\* handleStandardPronunciation up to its forvoRequest call
prepareStandardPronunciation(a) ==
    LET word == validateString(a.word, "word", 1, StringMaxLen)
        language == validateLanguage(a.language)
        first == FirstThrown(<<word, language>>)
    IN  IF ~first.ok THEN Rejected(first.err)
        ELSE Prepared("standard-pronunciation",
                      [NoParams EXCEPT !.word = word.val, !.language = language.val],
                      word.val, language.val, Undefined)

\* handleDownloadPronunciation up to its forvoRequest call
prepareDownloadPronunciation(a) ==
    LET word == validateString(a.word, "word", 1, StringMaxLen)
        language == validateLanguage(a.language)
        sex == validateSex(a.sex)
        first == FirstThrown(<<word, language, sex>>)
    IN  IF ~first.ok THEN Rejected(first.err)
        ELSE Prepared("word-pronunciations",
                      [NoParams EXCEPT !.word = word.val, !.language = language.val,
                                       !.order = RATE_DESC, !.limit = Num(DownloadLimit)],
                      word.val, language.val, sex.val)

\* handleSearchWords up to its forvoRequest call
prepareSearchWords(a) ==
    LET search == validateString(a.search, "search", 1, StringMaxLen)
        language == validateLanguage(a.language)
        limit == validateInt(a.limit, "limit", 1, LimitMax, Num(10))
        first == FirstThrown(<<search, language, limit>>)
    IN  IF ~first.ok THEN Rejected(first.err)
        ELSE Prepared("pronounced-words-search",
                      [NoParams EXCEPT !.search = search.val, !.language = language.val,
                                       !.limit = limit.val],
                      search.val, language.val, Undefined)

\* handleLanguageList up to its forvoRequest call
prepareLanguageList(a) ==
    LET order == validateOrder(a.order, LanguageOrders)
        minPronunciations == validateInt(a.min_pronunciations, "min_pronunciations",
                                         0, MinPronunciationsMax, Num(100))
        first == FirstThrown(<<order, minPronunciations>>)
    IN  IF ~first.ok THEN Rejected(first.err)
        ELSE Prepared("language-list",
                      [NoParams EXCEPT !.order = order.val,
                                       !.minPronunciations = minPronunciations.val],
                      Undefined, Undefined, Undefined)

\* own keys of TOOL_HANDLERS
RegisteredTools ==
    {"forvo_word_pronunciations", "forvo_standard_pronunciation",
     "forvo_download_pronunciation", "forvo_search_words", "forvo_language_list"}

prepare(tool, a) ==
    CASE tool = "forvo_word_pronunciations" -> prepareWordPronunciations(a)
      [] tool = "forvo_standard_pronunciation" -> prepareStandardPronunciation(a)
      [] tool = "forvo_download_pronunciation" -> prepareDownloadPronunciation(a)
      [] tool = "forvo_search_words" -> prepareSearchWords(a)
      [] tool = "forvo_language_list" -> prepareLanguageList(a)

----------------------------------------------------------------------------
(* URLs.  form is what url.startsWith and the URL parser see: an absolute  *)
(* https or http URL, or a relative reference; id names the resource.      *)

Url(form, id) == [form |-> form, id |-> id, action |-> "", q |-> NoParams]
NoUrl == Url("none", "")

\* buildUrl without its FORVO_API_KEY guard
buildUrlUnguarded(action, params) ==
    Returned([form |-> "https", id |-> "api", action |-> action,
              q |-> [k \in ParamKeys |->
                       IF IsNullish(params[k]) \/ StrictEq(params[k], Str(<<>>))
                       THEN Undefined ELSE params[k]]])

\* buildUrl: the key must be set; one path segment per non-empty parameter
buildUrl(action, params) ==
    IF FORVO_API_KEY = ""
    THEN Thrown(Error("FORVO_API_KEY", "environment variable is not set"))
    ELSE Returned([form |-> "https", id |-> "api", action |-> action,
                   q |-> [k \in ParamKeys |->
                            IF IsNullish(params[k]) \/ StrictEq(params[k], Str(<<>>))
                            THEN Undefined ELSE params[k]]])

----------------------------------------------------------------------------
(* The upstream: what the servers answer.  Resources outside the API are a *)
(* fixed little web; the API's answers are not determined by the model.    *)

Headers(status, hasLocation, location) ==
    [status |-> status, hasLocation |-> hasLocation, location |-> location, received |-> 0]
NoRes == Headers(0, FALSE, NoUrl)

Item(i, sex, pathmp3, pathogg) ==
    [id |-> i, sex |-> sex, pathmp3 |-> pathmp3, pathogg |-> pathogg]
NoItem == Item(0, Undefined, NoUrl, NoUrl)

\* the pronunciations a provider answer is made of (id is the position in the list)
ItemKinds(i) ==
    { Item(i, Str(<<"m">>), Url("https", "audio.mp3"), Url("http", "audio.ogg")),
      Item(i, Str(<<"f">>), Url("https", "moved"), NoUrl),
      Item(i, Str(<<"f">>), NoUrl, Url("http", "audio.ogg")),
      Item(i, Str(<<"m">>), NoUrl, NoUrl),
      Item(i, Str(<<"f">>), Url("https", "gone"), NoUrl),
      Item(i, Str(<<"m">>), Url("https", "moved-rel"), NoUrl),
      Item(i, Str(<<"f">>), Url("https", "loop"), NoUrl) }

ItemLists ==
    UNION { { l \in [1..n -> UNION {ItemKinds(i) : i \in 1..n}] :
                \A i \in 1..n : l[i].id = i } : n \in 0..MaxItems }

Json(hasItems, items) == [kind |-> "json", items |-> items, hasItems |-> hasItems]
Text(kind) == [kind |-> kind, items |-> <<>>, hasItems |-> FALSE]

\* response headers the server of u may send
Upstream(u) ==
    CASE u.id = "api" -> { Headers(200, FALSE, NoUrl), Headers(404, FALSE, NoUrl),
                           Headers(302, FALSE, NoUrl) }
      [] u.id = "audio.mp3" -> { Headers(200, FALSE, NoUrl) }
      [] u.id = "audio.ogg" -> { Headers(200, FALSE, NoUrl) }
      [] u.id = "moved" -> { Headers(302, TRUE, Url("https", "audio.mp3")) }
      [] u.id = "moved-rel" -> { Headers(301, TRUE, Url("relative", "audio.mp3")) }
      [] u.id = "moved-http" -> { Headers(307, TRUE, Url("http", "audio.ogg")) }
      [] u.id = "loop" -> { Headers(302, TRUE, Url("https", "loop")) }
      [] u.id = "not-modified" -> { Headers(304, FALSE, NoUrl) }
      [] u.id = "gone" -> { Headers(404, FALSE, NoUrl) }
      [] OTHER -> { Headers(404, FALSE, NoUrl) }

\* the complete body that goes with a response
Bodies(u, status) ==
    CASE u.id = "api" /\ status = 200 ->
              { Json(TRUE, l) : l \in ItemLists } \cup
              { Json(FALSE, <<>>), Text("null"), Text("garbage"), Text("empty") }
      [] u.id = "api" /\ status # 200 -> { Text("garbage"), Text("empty") }
      [] u.id \in {"audio.mp3", "audio.ogg"} -> { Text("bytes") }
      [] u.id = "not-modified" -> { Text("empty") }
      [] OTHER -> { Text("garbage") }

----------------------------------------------------------------------------
(* rawGet: one promise, one request per hop *)

Promise(state, status, body, err) ==
    [state |-> state, status |-> status, body |-> body, err |-> err]
NoPromise == Promise("none", 0, NoText, Error("", ""))
Pending == Promise("pending", 0, NoText, Error("", ""))
Resolve(status, body) == Promise("resolved", status, body, Error("", ""))
Reject(err) == Promise("rejected", 0, NoText, err)

TimeoutError ==
    [subject |-> "Request", text |-> "timed out after", num |-> HTTP_TIMEOUT_MS, body |-> NoText]

\* mod.get(url, ...) parses the URL and throws on anything but an absolute
\* URL of the module's protocol; url.startsWith("https") picks the module
GetThrows(u) == u.form \notin {"https", "http"}

\* the executor of new Promise for url u, p being the promise the caller sees
Hop(u, p) ==
    /\ url' = u
    /\ res' = NoRes
    /\ idle' = 0
    /\ IF GetThrows(u)
       THEN req' = "none" /\ promise' = Reject(Error("TypeError", "Invalid URL"))
       ELSE req' = "sent" /\ promise' = p

\* rawGet(u) called by a handler
rawGet(u) ==
    /\ start' = u
    /\ stale' = -1
    /\ elapsed' = 0
    /\ Hop(u, Pending)

HttpIdle ==
    /\ start' = NoUrl
    /\ url' = NoUrl
    /\ req' = "none"
    /\ res' = NoRes
    /\ promise' = NoPromise
    /\ idle' = 0
    /\ stale' = -1
    /\ elapsed' = 0

IsRedirect(h) == h.status >= 300 /\ h.status < 400 /\ h.hasLocation

\* the response callback: follow a redirect, or start collecting the body
HttpResponse ==
    /\ req = "sent" /\ promise.state = "pending"
    /\ \E h \in Upstream(url) :
         IF IsRedirect(h)
         THEN /\ Hop(h.location, promise)
              \* the redirect response is never consumed: its socket stays with the
              \* old request, idle, unless the server closes the connection
              /\ \E keepAlive \in BOOLEAN :
                    stale' = IF keepAlive /\ stale < 0 THEN 0 ELSE stale
              /\ UNCHANGED <<start, elapsed>>
         ELSE /\ req' = "body"
              /\ res' = h
              /\ idle' = 0
              /\ UNCHANGED <<start, url, promise, stale, elapsed>>
    /\ UNCHANGED <<FORVO_API_KEY, batch, dispatchVars>>

\* res.on("data"): chunks.push(chunk)
HttpData ==
    /\ req = "body" /\ promise.state = "pending"
    /\ res.received < MaxChunks
    /\ res' = [res EXCEPT !.received = @ + 1]
    /\ idle' = 0
    /\ UNCHANGED <<FORVO_API_KEY, batch, dispatchVars, start, url, req, promise, stale, elapsed>>

\* res.on("end"): resolve({status, statusMessage, buffer: Buffer.concat(chunks)})
HttpEnd ==
    /\ req = "body" /\ promise.state = "pending"
    /\ \E b \in Bodies(url, res.status) :
         /\ (b.kind = "empty") <=> (res.received = 0)
         /\ promise' = Resolve(res.status, b)
    /\ req' = "none"
    /\ UNCHANGED <<FORVO_API_KEY, batch, dispatchVars, start, url, res, idle, stale, elapsed>>

\* res.on("error", reject): the connection breaks while the body streams
HttpResError ==
    /\ req = "body" /\ promise.state = "pending"
    /\ promise' = Reject(Error("Error", "aborted"))
    /\ req' = "none"
    /\ UNCHANGED <<FORVO_API_KEY, batch, dispatchVars, start, url, res, idle, stale, elapsed>>

\* req.on("error", reject): no connection, or it breaks before the response
HttpReqError ==
    /\ req = "sent" /\ promise.state = "pending"
    /\ promise' = Reject(Error("Error", "socket hang up"))
    /\ req' = "none"
    /\ UNCHANGED <<FORVO_API_KEY, batch, dispatchVars, start, url, res, idle, stale, elapsed>>

\* req.setTimeout(HTTP_TIMEOUT_MS, ...): the socket was inactive for the deadline
HttpTimeout ==
    /\ req \in {"sent", "body"} /\ promise.state = "pending"
    /\ idle >= TicksPerTimeout
    /\ promise' = Reject(TimeoutError)
    /\ req' = "none"
    /\ UNCHANGED <<FORVO_API_KEY, batch, dispatchVars, start, url, res, idle, stale, elapsed>>

\* the same timer of an earlier hop, whose socket stayed open and idle
StaleTimeout ==
    /\ stale >= TicksPerTimeout /\ promise.state = "pending"
    /\ promise' = Reject(TimeoutError)
    /\ req' = "none"
    /\ stale' = -1
    /\ UNCHANGED <<FORVO_API_KEY, batch, dispatchVars, start, url, res, idle, elapsed>>

\* time passes; a timer that is due fires before more time passes
Tick ==
    /\ req \in {"sent", "body"} /\ promise.state = "pending"
    /\ idle < TicksPerTimeout /\ stale < TicksPerTimeout
    /\ idle' = idle + 1
    /\ stale' = IF stale >= 0 THEN stale + 1 ELSE stale
    /\ elapsed' = IF elapsed <= TicksPerTimeout THEN elapsed + 1 ELSE elapsed
    /\ UNCHANGED <<FORVO_API_KEY, batch, dispatchVars, start, url, req, res, promise>>

----------------------------------------------------------------------------
(* Tool results *)

NoAudio == [encoding |-> "none", data |-> NoText]
\* buffer.toString("base64")
Base64(buffer) == [encoding |-> "base64", data |-> buffer]

\* the text of a content element: JSON.stringify(...) of an object, or a plain sentence
Payload(format, kind) ==
    [format |-> format, kind |-> kind, error |-> Error("", ""), tool |-> "",
     word |-> Undefined, language |-> Undefined, count |-> 0, items |-> <<>>,
     best |-> NoItem, audio |-> NoAudio, mp3 |-> FALSE]

\* what the CallToolRequestSchema handler hands back to the SDK
Envelope(isError, payload) ==
    [kind |-> "result", isError |-> isError,
     content |-> <<[type |-> "text", text |-> payload]>>, err |-> Error("", "")]
\* the handler threw: the SDK answers the request with a JSON-RPC error
ThrowsOut(err) == [kind |-> "throw", isError |-> FALSE, content |-> <<>>, err |-> err]
\* the handler returned something that is no result object
RawReturn(what) == [kind |-> what, isError |-> FALSE, content |-> <<>>, err |-> Error("", "")]
NoResponse == RawReturn("none")

\* the catch block without its isError: true
FailureEnvelopeUnflagged(err, tool) ==
    Envelope(FALSE, [Payload("json", "error") EXCEPT !.error = err, !.tool = tool])

\* the catch block with text: err.message in place of the JSON document
FailureEnvelopePlain(err, tool) ==
    Envelope(TRUE, [Payload("plain", "error") EXCEPT !.error = err, !.tool = tool])

\* the catch block of the CallToolRequestSchema handler
FailureEnvelope(err, tool) ==
    Envelope(TRUE, [Payload("json", "error") EXCEPT !.error = err, !.tool = tool])

NoFrame == [word |-> Undefined, language |-> Undefined, sex |-> Undefined, best |-> NoItem,
            audioUrl |-> NoUrl]

Outcome(kind, payload, err, best, audioUrl) ==
    [kind |-> kind, payload |-> payload, err |-> err, best |-> best, audioUrl |-> audioUrl]
Return(payload) == Outcome("return", payload, Error("", ""), NoItem, NoUrl)
Throw(err) == Outcome("throw", Payload("none", ""), err, NoItem, NoUrl)
Download(best, audioUrl) == Outcome("download", Payload("none", ""), Error("", ""), best, audioUrl)

\* forvoRequest without its status check: any body is handed to JSON.parse
forvoRequestUnchecked(p) ==
    IF p.state = "rejected" THEN [ok |-> FALSE, err |-> p.err, data |-> NoText]
    ELSE IF p.body.kind \in {"json", "null"}
    THEN [ok |-> TRUE, err |-> Error("", ""), data |-> p.body]
    ELSE [ok |-> FALSE, err |-> Error("SyntaxError", "Unexpected token in JSON"),
          data |-> NoText]

\* forvoRequest after await rawGet(url): status check, then JSON.parse(body)
forvoRequest(p) ==
    IF p.state = "rejected" THEN [ok |-> FALSE, err |-> p.err, data |-> NoText]
    ELSE IF p.status < 200 \/ p.status >= 300
    THEN [ok |-> FALSE,
          err |-> [subject |-> "Forvo API error", text |-> "status statusMessage - body",
                   num |-> p.status,
                   body |-> IF p.body.kind = "empty" THEN NoText ELSE p.body],
          data |-> NoText]
    ELSE IF p.body.kind \in {"json", "null"}
    THEN [ok |-> TRUE, err |-> Error("", ""), data |-> p.body]
    ELSE [ok |-> FALSE, err |-> Error("SyntaxError", "Unexpected token in JSON"),
          data |-> NoText]

\* data.items || []
ItemsOf(data) == IF data.hasItems THEN data.items ELSE <<>>

NullDataError == Error("TypeError", "Cannot read properties of null (reading 'items')")

\* handleWordPronunciations after await forvoRequest
wordPronunciationsResult(fr, r) ==
    IF ~r.ok THEN Throw(r.err)
    ELSE IF r.data.kind = "null" THEN Throw(NullDataError)
    ELSE LET items == ItemsOf(r.data) IN
         IF Len(items) = 0
         THEN Return([Payload("plain", "No pronunciations found for word in language")
                        EXCEPT !.word = fr.word, !.language = fr.language])
         ELSE Return([Payload("json", "pronunciations")
                        EXCEPT !.word = fr.word, !.language = fr.language,
                               !.count = Len(items), !.items = items])

\* handleStandardPronunciation after await forvoRequest
standardPronunciationResult(fr, r) ==
    IF ~r.ok THEN Throw(r.err)
    ELSE IF r.data.kind = "null" THEN Throw(NullDataError)
    ELSE LET items == ItemsOf(r.data) IN
         IF Len(items) = 0
         THEN Return([Payload("plain", "No standard pronunciation found for word in language")
                        EXCEPT !.word = fr.word, !.language = fr.language])
         ELSE Return([Payload("json", "standard")
                        EXCEPT !.word = fr.word, !.language = fr.language,
                               !.best = items[1]])

\* items[0] with the sex filter left out
bestUnfiltered(items, sex) == items[1]

\* the sex filter of handleDownloadPronunciation and its items[0]
bestForDownload(items, sex) ==
    LET filtered == SelectSeq(items, LAMBDA i : StrictEq(i.sex, sex))
        kept == IF Truthy(sex) /\ Len(filtered) > 0 THEN filtered ELSE items
    IN  kept[1]

\* best.pathmp3 || best.pathogg
audioUrlOf(best) == IF best.pathmp3 # NoUrl THEN best.pathmp3 ELSE best.pathogg

\* handleDownloadPronunciation after await forvoRequest
downloadPronunciationResult(fr, r) ==
    IF ~r.ok THEN Throw(r.err)
    ELSE IF r.data.kind = "null" THEN Throw(NullDataError)
    ELSE LET items == ItemsOf(r.data) IN
         IF Len(items) = 0
         THEN Return([Payload("plain", "No pronunciations found for word in language")
                        EXCEPT !.word = fr.word, !.language = fr.language])
         ELSE LET best == bestForDownload(items, fr.sex) IN
              IF audioUrlOf(best) = NoUrl
              THEN Return([Payload("plain", "No audio URL available for word")
                             EXCEPT !.word = fr.word])
              ELSE Download(best, audioUrlOf(best))

\* audioUrl.includes("mp3")
IncludesMp3(u) == u.id \in {"audio.mp3"}

\* downloadAudio after await rawGet(url), and the rest of handleDownloadPronunciation
downloadAudioResult(fr, p) ==
    IF p.state = "rejected" THEN Throw(p.err)
    ELSE IF p.status < 200 \/ p.status >= 300
    THEN Throw([subject |-> "Audio download failed", text |-> "status",
                num |-> p.status, body |-> NoText])
    ELSE Return([Payload("json", "audio")
                   EXCEPT !.word = fr.word, !.language = fr.language,
                          !.audio = Base64(p.body), !.mp3 = IncludesMp3(fr.audioUrl),
                          !.best = fr.best])

\* handleSearchWords after await forvoRequest
searchWordsResult(fr, r) ==
    IF ~r.ok THEN Throw(r.err)
    ELSE IF r.data.kind = "null" THEN Throw(NullDataError)
    ELSE LET items == ItemsOf(r.data) IN
         Return([Payload("json", "search")
                   EXCEPT !.word = fr.word, !.language = fr.language,
                          !.count = Len(items), !.items = items])

\* handleLanguageList after await forvoRequest
languageListResult(fr, r) ==
    IF ~r.ok THEN Throw(r.err)
    ELSE IF r.data.kind = "null" THEN Throw(NullDataError)
    ELSE LET items == ItemsOf(r.data) IN
         Return([Payload("json", "languages") EXCEPT !.count = Len(items), !.items = items])

afterApi(tool, fr, p) ==
    CASE tool = "forvo_word_pronunciations" -> wordPronunciationsResult(fr, forvoRequest(p))
      [] tool = "forvo_standard_pronunciation" -> standardPronunciationResult(fr, forvoRequest(p))
      [] tool = "forvo_download_pronunciation" -> downloadPronunciationResult(fr, forvoRequest(p))
      [] tool = "forvo_search_words" -> searchWordsResult(fr, forvoRequest(p))
      [] tool = "forvo_language_list" -> languageListResult(fr, forvoRequest(p))

----------------------------------------------------------------------------
(* Tool dispatch *)

\* TOOL_HANDLERS[name]: an own key, or whatever Object.prototype holds under the name
TOOL_HANDLERS(tool) ==
    CASE tool \in RegisteredTools -> "handler"
      [] tool = "toString" -> "Object.prototype.toString"
      [] tool = "__proto__" -> "Object.prototype"
      [] OTHER -> "undefined"

ToolNames == RegisteredTools \cup {"no_such_tool", "toString", "__proto__"}

WORD == Str(<<"n", "e", "k", "o">>)

\* argument objects of the calls the host makes
CallArgs(tool) ==
    CASE tool = "forvo_word_pronunciations" ->
              { [NoArgs EXCEPT !.word = w, !.limit = l, !.country = c] :
                  w \in {WORD, Undefined}, l \in {Undefined, Num(1), Num(0)},
                  c \in {Undefined, Str(<<>>), Str(<<"J", "P", "N">>)} }
      [] tool = "forvo_standard_pronunciation" ->
              { [NoArgs EXCEPT !.word = w, !.language = l] :
                  w \in {WORD, Str(<<" ", " ">>)}, l \in {Undefined, Str(<<"e", "n">>)} }
      [] tool = "forvo_download_pronunciation" ->
              { [NoArgs EXCEPT !.word = w, !.sex = x] :
                  w \in {WORD, Undefined},
                  x \in {Undefined, Str(<<"m">>), Str(<<"f">>), Str(<<"x">>)} }
      [] tool = "forvo_search_words" ->
              { [NoArgs EXCEPT !.search = w, !.limit = l] :
                  w \in {WORD, Undefined}, l \in {Undefined, Num(51)} }
      [] tool = "forvo_language_list" ->
              { [NoArgs EXCEPT !.order = o] : o \in {Undefined, ORDER_CODE, RATE_DESC} }
      [] OTHER -> { NoArgs }

\* a request arrives: const { name, arguments: args = {} } = request.params
CallTool ==
    /\ phase = "Idle"
    /\ \E tool \in ToolNames : \E a \in CallArgs(tool) :
         /\ name' = tool
         /\ args' = a
    /\ phase' = "Dispatching"
    /\ pc' = "entry"
    /\ UNCHANGED <<FORVO_API_KEY, batch, frame, requests, sent, response, httpVars>>

\* the request handler is done: phase and response, the handler's frame is gone
\* (the settled promise it last awaited stays visible until the response is written)
Finish(ph, r) ==
    /\ phase' = ph
    /\ response' = r
    /\ pc' = "none"
    /\ frame' = NoFrame
    /\ UNCHANGED httpVars

\* the registered handler from its first line to its first await (or its throw)
RunHandler ==
    LET p == prepare(name, args) IN
    IF ~p.ok
    THEN Finish("Failure", FailureEnvelope(p.err, name)) /\ UNCHANGED <<requests, sent>>
    ELSE LET u == buildUrl(p.action, p.params) IN
         IF ~u.ok
         THEN Finish("Failure", FailureEnvelope(u.err, name)) /\ UNCHANGED <<requests, sent>>
         ELSE /\ sent' = p.params
              /\ requests' = requests + 1
              /\ frame' = [NoFrame EXCEPT !.word = p.word, !.language = p.language,
                                          !.sex = p.sex]
              /\ pc' = "awaitApi"
              /\ rawGet(u.val)
              /\ UNCHANGED <<phase, response>>

\* the CallToolRequestSchema handler up to the handler's first await
Dispatch ==
    /\ phase = "Dispatching" /\ pc = "entry"
    /\ CASE TOOL_HANDLERS(name) = "undefined" ->
                 Finish("Fault", ThrowsOut(Error("Unknown tool", name)))
                 /\ UNCHANGED <<requests, sent>>
         [] TOOL_HANDLERS(name) = "Object.prototype.toString" ->
                 Finish("Success", RawReturn("[object Undefined]"))
                 /\ UNCHANGED <<requests, sent>>
         [] TOOL_HANDLERS(name) = "Object.prototype" ->
                 Finish("Failure",
                        FailureEnvelope(Error("TypeError", "handler is not a function"), name))
                 /\ UNCHANGED <<requests, sent>>
         [] TOOL_HANDLERS(name) = "handler" -> RunHandler
    /\ UNCHANGED <<FORVO_API_KEY, batch, name, args>>

Settled == promise.state \in {"resolved", "rejected"}

\* the handler continues after await forvoRequest(...)
ResumeApi ==
    /\ phase = "Dispatching" /\ pc = "awaitApi" /\ Settled
    /\ LET o == afterApi(name, frame, promise) IN
         CASE o.kind = "throw" ->
                  Finish("Failure", FailureEnvelope(o.err, name)) /\ UNCHANGED requests
           [] o.kind = "return" ->
                  Finish("Success", Envelope(FALSE, o.payload)) /\ UNCHANGED requests
           [] o.kind = "download" ->
                  /\ frame' = [frame EXCEPT !.best = o.best, !.audioUrl = o.audioUrl]
                  /\ pc' = "awaitAudio"
                  /\ requests' = requests + 1
                  /\ rawGet(o.audioUrl)
                  /\ UNCHANGED <<phase, response>>
    /\ UNCHANGED <<FORVO_API_KEY, batch, name, args, sent>>

\* handleDownloadPronunciation continues after await downloadAudio(audioUrl)
ResumeAudio ==
    /\ phase = "Dispatching" /\ pc = "awaitAudio" /\ Settled
    /\ LET o == downloadAudioResult(frame, promise) IN
         IF o.kind = "throw"
         THEN Finish("Failure", FailureEnvelope(o.err, name))
         ELSE Finish("Success", Envelope(FALSE, o.payload))
    /\ UNCHANGED <<FORVO_API_KEY, batch, name, args, sent, requests>>

\* the SDK writes the response; the server waits for the next request
Respond ==
    /\ phase \in {"Success", "Failure", "Fault"}
    /\ phase' = "Idle"
    /\ name' = ""
    /\ args' = NoArgs
    /\ requests' = 0
    /\ sent' = NoParams
    /\ response' = NoResponse
    /\ HttpIdle
    /\ UNCHANGED <<FORVO_API_KEY, batch, pc, frame>>

----------------------------------------------------------------------------
(* Batch download of the Japanese Audio bundle (download_audio,            *)
(* batch_download_audio): the words of one call are downloaded             *)
(* concurrently from the query-string audio provider, one request a word.  *)

MaxBatch == 3

\* a downloaded buffer below this many bytes is the provider's placeholder
PlaceholderBytes == 1000

BatchPayload(total, succeeded, failed, results, isError, error) ==
    [total |-> total, succeeded |-> succeeded, failed |-> failed, results |-> results,
     isError |-> isError, error |-> error]
NoBatch ==
    [state |-> "none", words |-> <<>>, tasks |-> <<>>, finished |-> <<>>,
     payload |-> BatchPayload(0, 0, 0, <<>>, FALSE, "")]

\* a word of the batch: native script and phonetic reading
BatchWord(kanji, kana) == [kanji |-> kanji, kana |-> kana]
BatchWords == { BatchWord("neko", "ne-ko"), BatchWord("inu", "i-nu") }

\* what the audio provider may do with one request
Answers ==
    { [kind |-> "response", status |-> 200, bytes |-> 50000],
      [kind |-> "response", status |-> 200, bytes |-> 500],
      [kind |-> "response", status |-> 404, bytes |-> 0],
      [kind |-> "timeout", status |-> 0, bytes |-> 0] }
NoAnswer == [kind |-> "none", status |-> 0, bytes |-> 0]

\* the bytes the provider sent for a word
AudioOf(w, a) == [of |-> w.kanji, reading |-> w.kana, bytes |-> a.bytes]
NoAudioOf == [of |-> "", reading |-> "", bytes |-> 0]

\* download_audio of one word, given what the provider did: base64 audio, or the error
downloadWord(w, a) ==
    CASE a.kind = "timeout" ->
             [ok |-> FALSE, audio |-> NoAudioOf, error |-> "Request timed out"]
      [] a.kind = "response" /\ (a.status < 200 \/ a.status >= 300) ->
             [ok |-> FALSE, audio |-> NoAudioOf, error |-> "HTTP error"]
      [] a.kind = "response" /\ a.bytes < PlaceholderBytes ->
             [ok |-> FALSE, audio |-> NoAudioOf, error |-> "Audio not found"]
      [] OTHER ->
             [ok |-> TRUE, audio |-> AudioOf(w, a), error |-> ""]

\* one item's download: in flight, or settled with what the provider did
Task(state, answer) == [state |-> state, answer |-> answer]

\* one entry of the final payload: the item's result or the item's error message
BatchEntry(w, t) ==
    LET r == downloadWord(w, t.answer) IN
    [word |-> w.kanji, success |-> r.ok, audio |-> r.audio, error |-> r.error]

\* the payload with the entries in the order the downloads completed
batchPayloadInCompletionOrder(words, tasks) ==
    LET ok == { i \in 1..Len(words) : downloadWord(words[i], tasks[i].answer).ok } IN
    BatchPayload(Len(words), Cardinality(ok), Len(words) - Cardinality(ok),
                 [k \in 1..Len(batch.finished) |->
                     BatchEntry(words[batch.finished[k]], tasks[batch.finished[k]])],
                 FALSE, "")

\* the final payload: counts, and one entry per word in input order
batchPayload(words, tasks) ==
    LET ok == { i \in 1..Len(words) : downloadWord(words[i], tasks[i].answer).ok } IN
    BatchPayload(Len(words), Cardinality(ok), Len(words) - Cardinality(ok),
                 [i \in 1..Len(words) |-> BatchEntry(words[i], tasks[i])],
                 FALSE, "")

\* batch_download_audio(words): an empty array fails the call before any request,
\* otherwise every word's download is started
BatchCall ==
    /\ phase = "Idle" /\ pc = "none" /\ batch.state = "none"
    /\ \E n \in 0..MaxBatch : \E ws \in [1..n -> BatchWords] :
         batch' = IF n = 0
                  THEN [NoBatch EXCEPT !.state = "done",
                                       !.payload = BatchPayload(0, 0, 0, <<>>, TRUE,
                                                       "words must be a non-empty array")]
                  ELSE [NoBatch EXCEPT !.state = "running", !.words = ws,
                                       !.tasks = [i \in 1..n |-> Task("sent", NoAnswer)]]
    /\ UNCHANGED <<FORVO_API_KEY, dispatchVars, httpVars>>

\* the download of one item settles, in any order among the items in flight
BatchItemSettles ==
    /\ batch.state = "running"
    /\ \E i \in 1..Len(batch.words) : \E a \in Answers :
         /\ batch.tasks[i].state = "sent"
         /\ batch' = [batch EXCEPT !.tasks[i] = Task("settled", a),
                                   !.finished = Append(@, i)]
    /\ UNCHANGED <<FORVO_API_KEY, dispatchVars, httpVars>>

\* every download has settled: the payload is assembled
BatchReturn ==
    /\ batch.state = "running"
    /\ \A i \in 1..Len(batch.words) : batch.tasks[i].state = "settled"
    /\ batch' = [batch EXCEPT !.state = "done",
                              !.payload = batchPayload(batch.words, batch.tasks)]
    /\ UNCHANGED <<FORVO_API_KEY, dispatchVars, httpVars>>

\* the payload is sent; the server waits for the next call
BatchRespond ==
    /\ batch.state = "done"
    /\ batch' = NoBatch
    /\ UNCHANGED <<FORVO_API_KEY, dispatchVars, httpVars>>

NextBatch ==
    \/ BatchCall
    \/ BatchItemSettles
    \/ BatchReturn
    \/ BatchRespond

----------------------------------------------------------------------------

Init ==
    /\ FORVO_API_KEY \in {"", "key"}
    /\ phase = "Idle"
    /\ name = ""
    /\ args = NoArgs
    /\ pc = "none"
    /\ frame = NoFrame
    /\ requests = 0
    /\ sent = NoParams
    /\ response = NoResponse
    /\ start = NoUrl
    /\ url = NoUrl
    /\ req = "none"
    /\ res = NoRes
    /\ promise = NoPromise
    /\ idle = 0
    /\ stale = -1
    /\ elapsed = 0
    /\ batch = NoBatch

Next ==
    \/ CallTool
    \/ Dispatch
    \/ ResumeApi
    \/ ResumeAudio
    \/ Respond
    \/ HttpResponse
    \/ HttpData
    \/ HttpEnd
    \/ HttpResError
    \/ HttpReqError
    \/ HttpTimeout
    \/ StaleTimeout
    \/ Tick

Spec == Init /\ [][Next]_vars

----------------------------------------------------------------------------
(* The validators and the handlers' first part on a wide range of          *)
(* argument objects: the call is taken up to its first request.            *)

Pad(lead, n, trail) == Str(Chars(lead, " ") \o Chars(n, "a") \o Chars(trail, " "))

ValidationArgs(tool) ==
    LET words == {Undefined, Num(42), Pad(2, 0, 0), Pad(1, 2, 1),
                  Pad(1, StringMaxLen, 1), Pad(0, StringMaxLen + 1, 0)}
        languages == {Undefined, Pad(0, 1, 0), Pad(1, 2, 1), Pad(0, 5, 0), Pad(0, 6, 0),
                      Num(12)}
        sexes == {Undefined, Str(<<"m">>), Str(<<"f">>), Str(<<"x">>), Str(<<>>)}
        limits == {Undefined, Num(0), Num(1), Num(LimitMax), Num(LimitMax + 1), Frac(2),
                   Str(<<"7">>)}
        rates == {Undefined, Num(-1), Num(0), Num(RateMax), Num(RateMax + 1)}
        countries == {Undefined, Str(<<>>), Pad(0, 2, 0), Pad(1, 3, 1), Pad(0, 4, 0),
                      Pad(2, 0, 0), Num(0)}
    IN
    CASE tool = "forvo_word_pronunciations" ->
              { [NoArgs EXCEPT !.word = w, !.language = l, !.sex = x, !.order = o,
                               !.limit = n, !.min_rate = r, !.country = c] :
                  w \in words, l \in languages, x \in sexes,
                  o \in {Undefined, DATE_ASC, ORDER_NAME}, n \in limits, r \in rates,
                  c \in countries }
      [] tool = "forvo_standard_pronunciation" ->
              { [NoArgs EXCEPT !.word = w, !.language = l] : w \in words, l \in languages }
      [] tool = "forvo_download_pronunciation" ->
              { [NoArgs EXCEPT !.word = w, !.language = l, !.sex = x] :
                  w \in words, l \in languages, x \in sexes }
      [] tool = "forvo_search_words" ->
              { [NoArgs EXCEPT !.search = w, !.language = l, !.limit = n] :
                  w \in words, l \in languages, n \in limits }
      [] tool = "forvo_language_list" ->
              { [NoArgs EXCEPT !.order = o, !.min_pronunciations = n] :
                  o \in {Undefined, ORDER_CODE, RATE_DESC},
                  n \in {Undefined, Num(-1), Num(0), Num(MinPronunciationsMax),
                         Num(MinPronunciationsMax + 1)} }

InitValidation ==
    /\ FORVO_API_KEY \in {"", "key"}
    /\ phase = "Dispatching"
    /\ name \in RegisteredTools
    /\ args \in ValidationArgs(name)
    /\ pc = "entry"
    /\ frame = NoFrame
    /\ requests = 0
    /\ sent = NoParams
    /\ response = NoResponse
    /\ start = NoUrl
    /\ url = NoUrl
    /\ req = "none"
    /\ res = NoRes
    /\ promise = NoPromise
    /\ idle = 0
    /\ stale = -1
    /\ elapsed = 0
    /\ batch = NoBatch

NextValidation == Dispatch

SpecValidation == InitValidation /\ [][NextValidation]_vars

SpecBatch == Init /\ [][NextBatch]_vars

----------------------------------------------------------------------------
(* rawGet on its own, called on the resources of the little web *)

WebUrls ==
    { Url("https", "audio.mp3"), Url("http", "audio.ogg"), Url("https", "moved"),
      Url("https", "moved-rel"), Url("https", "moved-http"), Url("https", "loop"),
      Url("https", "not-modified"), Url("https", "gone") }

\* a caller awaits rawGet(u)
RawGetCall ==
    /\ phase = "Idle" /\ pc = "none"
    /\ \E u \in WebUrls : rawGet(u)
    /\ pc' = "rawGet"
    /\ UNCHANGED <<FORVO_API_KEY, batch, phase, name, args, frame, requests, sent, response>>

\* the caller's continuation takes the settled promise
RawGetReturn ==
    /\ pc = "rawGet" /\ Settled
    /\ pc' = "none"
    /\ HttpIdle
    /\ UNCHANGED <<FORVO_API_KEY, batch, phase, name, args, frame, requests, sent, response>>

NextHttp ==
    \/ RawGetCall
    \/ RawGetReturn
    \/ HttpResponse
    \/ HttpData
    \/ HttpEnd
    \/ HttpResError
    \/ HttpReqError
    \/ HttpTimeout
    \/ StaleTimeout
    \/ Tick

\* the event loop runs every continuation that is ready and every timer that is
\* due, and time passes; the host and the upstream owe nothing
FairSpec ==
    /\ Spec
    /\ WF_vars(Dispatch)
    /\ WF_vars(ResumeApi)
    /\ WF_vars(ResumeAudio)
    /\ WF_vars(Respond)
    /\ WF_vars(Tick)
    /\ WF_vars(HttpTimeout)
    /\ WF_vars(StaleTimeout)

SpecHttp == Init /\ [][NextHttp]_vars

\* the event loop runs every timer that is due and every continuation that is
\* ready, and time passes; the upstream owes nothing
FairSpecHttp ==
    /\ SpecHttp
    /\ WF_vars(Tick)
    /\ WF_vars(HttpTimeout)
    /\ WF_vars(StaleTimeout)
    /\ WF_vars(RawGetReturn)

----------------------------------------------------------------------------
(* Properties *)

Answered == phase \in {"Success", "Failure", "Fault"}

TextOf(r) == r.content[1].text

\* exactly one content element, of type text
IsEnvelope(r) == r.kind = "result" /\ Len(r.content) = 1 /\ r.content[1].type = "text"

\* the structured failure envelope for the tool of the call, its message starting with subject
FailureWith(subject) ==
    /\ IsEnvelope(response)
    /\ response.isError
    /\ TextOf(response).format = "json"
    /\ TextOf(response).kind = "error"
    /\ TextOf(response).tool = name
    /\ TextOf(response).error.subject = subject

Is2xx(status) == status >= 200 /\ status < 300

\* why a handler fails, read off the arguments, the configuration and the upstream
ValidationFails == ~prepare(name, args).ok
KeyMissing == FORVO_API_KEY = ""
RequestRejected == requests >= 1 /\ promise.state = "rejected"
ApiStatusFails == requests = 1 /\ promise.state = "resolved" /\ ~Is2xx(promise.status)
ApiBodyUnparsable ==
    /\ requests = 1 /\ promise.state = "resolved" /\ Is2xx(promise.status)
    /\ promise.body.kind \in {"garbage", "empty"}
ApiBodyNull ==
    /\ requests = 1 /\ promise.state = "resolved" /\ Is2xx(promise.status)
    /\ promise.body.kind = "null"
AudioStatusFails == requests = 2 /\ promise.state = "resolved" /\ ~Is2xx(promise.status)

HandlerFails ==
    \/ ValidationFails \/ KeyMissing \/ RequestRejected \/ ApiStatusFails
    \/ ApiBodyUnparsable \/ ApiBodyNull \/ AudioStatusFails

\* C1: whenever the handler of a registered tool fails (validation error, missing
\* API key, rejected request - timeout or network error -, non-2xx status,
\* unparsable body), the request handler still returns, and what it returns is the
\* envelope with isError = true whose one text is the JSON document of the error
\* message and the name of the tool called.
C1_HandlerFailureIsEnvelope ==
    (Answered /\ name \in RegisteredTools) =>
        /\ HandlerFails => (phase = "Failure" /\ IsEnvelope(response) /\ response.isError
                            /\ TextOf(response).format = "json"
                            /\ TextOf(response).tool = name)
        /\ ValidationFails => FailureWith(prepare(name, args).err.subject)
        /\ (~ValidationFails /\ KeyMissing) => FailureWith("FORVO_API_KEY")
        /\ RequestRejected => (FailureWith(promise.err.subject)
                               /\ TextOf(response).error = promise.err)
        /\ ApiStatusFails => FailureWith("Forvo API error")
        /\ ApiBodyUnparsable => FailureWith("SyntaxError")
        /\ AudioStatusFails => FailureWith("Audio download failed")

\* C1 witness: a download whose audio request timed out was answered with the envelope
C1_Witness ==
    /\ phase = "Failure"
    /\ name = "forvo_download_pronunciation"
    /\ requests = 2
    /\ promise.state = "rejected" /\ promise.err = TimeoutError
    /\ response.isError

\* C2: a call whose name is not in the dispatch table is answered with the failure
\* envelope (isError, an 'unknown tool' message, the offending name), never with a
\* fault of the request itself.
C2_UnknownToolIsFailure ==
    (Answered /\ name \notin RegisteredTools) => FailureWith("Unknown tool")

NoResultSentences ==
    {"No pronunciations found for word in language",
     "No standard pronunciation found for word in language",
     "No audio URL available for word"}

\* C3 as stated: every response for a call of a registered tool, on the result, the
\* no-result and the failure paths alike, is one content element of type text whose
\* text is a JSON document.
C3_EveryTextIsJson ==
    (Answered /\ name \in RegisteredTools) =>
        (IsEnvelope(response) /\ TextOf(response).format = "json")

\* C3 amended: every response for a call of a registered tool is one content element
\* of type text; the text is a JSON document on the result and failure paths and a
\* plain sentence on the three no-result paths (no pronunciations, no standard
\* pronunciation, no audio URL), which are not flagged; isError is set exactly when
\* the handler failed.
C3_EnvelopeShape ==
    (Answered /\ name \in RegisteredTools) =>
        /\ IsEnvelope(response)
        /\ response.isError <=> HandlerFails
        /\ \/ TextOf(response).format = "json"
           \/ /\ TextOf(response).format = "plain"
              /\ TextOf(response).kind \in NoResultSentences
              /\ ~response.isError
              /\ name \in {"forvo_word_pronunciations", "forvo_standard_pronunciation",
                           "forvo_download_pronunciation"}
              /\ requests = 1 /\ promise.state = "resolved" /\ promise.body.kind = "json"
        /\ (Len(ItemsOf(promise.body)) = 0 /\ requests = 1 /\ ~HandlerFails
            /\ name \in {"forvo_search_words", "forvo_language_list"})
              => (TextOf(response).format = "json" /\ TextOf(response).count = 0)

\* C3 witness: the no-audio-URL answer, a plain sentence in the envelope
C3_Witness ==
    /\ phase = "Success"
    /\ name = "forvo_download_pronunciation"
    /\ IsEnvelope(response)
    /\ TextOf(response).format = "plain"
    /\ TextOf(response).kind = "No audio URL available for word"

\* the server between two calls: nothing of an earlier call is left
CleanIdle ==
    /\ name = "" /\ args = NoArgs /\ pc = "none" /\ frame = NoFrame
    /\ requests = 0 /\ sent = NoParams /\ response = NoResponse
    /\ start = NoUrl /\ url = NoUrl /\ req = "none" /\ res = NoRes
    /\ promise = NoPromise /\ idle = 0 /\ stale = -1 /\ elapsed = 0

\* C4: dispatch runs Idle -> Dispatching -> {Success, Failure} -> Idle; every
\* dispatched call eventually ends in Success or Failure; back in Idle nothing of
\* the call is left, so a failure changes no later call.
C4_DispatchCycle ==
    /\ [][/\ phase = "Idle" => phase' \in {"Idle", "Dispatching"}
          /\ phase = "Dispatching" => phase' \in {"Dispatching", "Success", "Failure"}
          /\ phase \in {"Success", "Failure"} => phase' \in {phase, "Idle"}]_vars
    /\ [](phase = "Idle" => CleanIdle)
    /\ [](phase = "Dispatching" => <>(phase \in {"Success", "Failure"}))

\* C4, its liveness half alone: a dispatched call does not stay dispatched for ever
CallEnds == [](phase = "Dispatching" => <>(phase # "Dispatching"))

\* C6: with no API key configured, a call of any registered tool, whatever its
\* arguments, issues no HTTP request and is answered with the failure envelope; the
\* error is the configuration error whenever the arguments themselves are valid.
C6_NoKeyNoRequest ==
    (KeyMissing /\ name \in RegisteredTools /\ phase # "Idle" /\ pc # "entry") =>
        /\ requests = 0
        /\ req = "none" /\ promise = NoPromise
        /\ phase = "Failure"
        /\ IF ValidationFails THEN FailureWith(prepare(name, args).err.subject)
                              ELSE FailureWith("FORVO_API_KEY")

\* C6 witness: valid arguments, no key: the configuration error, no request
C6_Witness ==
    /\ KeyMissing
    /\ name = "forvo_standard_pronunciation" /\ ~ValidationFails
    /\ phase = "Failure" /\ requests = 0
    /\ TextOf(response).error.subject = "FORVO_API_KEY"

\* the item the claim names: the first of sex s in provider order if there is one
\* and s was asked for, the first item otherwise
FirstOfSex(items, s) ==
    LET wanted == {i \in 1..Len(items) : items[i].sex = s} IN
    IF s \in {Str(<<"m">>), Str(<<"f">>)} /\ wanted # {}
    THEN items[CHOOSE i \in wanted : \A j \in wanted : i <= j]
    ELSE items[1]

\* C7: forvo_download_pronunciation, given a non-empty items list, goes on with the
\* first item of the requested sex in provider order, with the first item when no
\* item has that sex or no sex was requested; that item's audio (mp3 before ogg) is
\* what it downloads and that item is what the result reports.
C7_BestForDownload ==
    [][/\ (/\ pc = "awaitApi" /\ name = "forvo_download_pronunciation"
           /\ promise.state = "resolved" /\ Is2xx(promise.status)
           /\ promise.body.kind = "json" /\ Len(ItemsOf(promise.body)) > 0
           /\ pc' # "awaitApi")
          => LET expected == FirstOfSex(promise.body.items, args.sex)
                 audio == IF expected.pathmp3 # NoUrl THEN expected.pathmp3
                          ELSE expected.pathogg
             IN  IF audio = NoUrl
                 THEN /\ phase' = "Success"
                      /\ TextOf(response').kind = "No audio URL available for word"
                 ELSE /\ pc' = "awaitAudio"
                      /\ frame'.best = expected
                      /\ start' = audio
                      /\ requests' = 2
       /\ (/\ pc = "awaitAudio" /\ promise.state = "resolved" /\ Is2xx(promise.status)
           /\ pc' # "awaitAudio")
          => /\ phase' = "Success"
             /\ TextOf(response').best = frame.best
             /\ TextOf(response').audio = Base64(promise.body)]_vars

\* C7 witness: sex m was asked for, the first item is not m, the second is taken
C7_Witness ==
    /\ pc = "awaitAudio"
    /\ args.sex = Str(<<"m">>)
    /\ frame.best.id = 2 /\ frame.best.sex = Str(<<"m">>)

\* C8: a final status outside 2xx fails the call with an error carrying the status
\* (and the body, when there is one, for an API request); a 2xx answer whose JSON
\* has no items field or an empty one is answered without the error flag and
\* reports no results.
C8_StatusAndNoResults ==
    (Answered /\ name \in RegisteredTools /\ promise.state = "resolved") =>
        /\ (requests = 1 /\ ~Is2xx(promise.status)) =>
              /\ FailureWith("Forvo API error")
              /\ TextOf(response).error.num = promise.status
              /\ promise.body.kind # "empty" => TextOf(response).error.body = promise.body
        /\ (requests = 2 /\ ~Is2xx(promise.status)) =>
              /\ FailureWith("Audio download failed")
              /\ TextOf(response).error.num = promise.status
        /\ (/\ requests = 1 /\ Is2xx(promise.status) /\ promise.body.kind = "json"
            /\ (~promise.body.hasItems \/ promise.body.items = <<>>)) =>
              /\ phase = "Success"
              /\ IsEnvelope(response) /\ ~response.isError
              /\ \/ TextOf(response).kind \in NoResultSentences
                 \/ (TextOf(response).count = 0 /\ TextOf(response).items = <<>>)

\* C8 witness: a 2xx answer without an items field, reported as zero results
C8_Witness ==
    /\ phase = "Success"
    /\ name = "forvo_search_words"
    /\ promise.state = "resolved" /\ promise.status = 200
    /\ promise.body = Json(FALSE, <<>>)
    /\ TextOf(response).count = 0

(* C5: what the claim calls within bounds *)

IsTrimmed(v) == v.t = "string" /\ Trim(v.v) = v.v
TextInBounds(v, min, max) == IsTrimmed(v) /\ Len(v.v) >= min /\ Len(v.v) <= max
IntInBounds(v, min, max) == v.t = "number" /\ v.v >= min /\ v.v <= max
InSeq(v, allowed) == \E i \in 1..Len(allowed) : allowed[i] = v
Absent(v) == v = Undefined

TakesWord == name \in {"forvo_word_pronunciations", "forvo_standard_pronunciation",
                       "forvo_download_pronunciation"}
TakesLanguage == name # "forvo_language_list"

\* every value handed to the network layer is within its declared bounds
SentInBounds ==
    /\ IF TakesWord THEN TextInBounds(sent.word, 1, StringMaxLen) ELSE Absent(sent.word)
    /\ IF name = "forvo_search_words" THEN TextInBounds(sent.search, 1, StringMaxLen)
                                      ELSE Absent(sent.search)
    /\ IF TakesLanguage
       THEN /\ TextInBounds(sent.language, LanguageMin, LanguageMax)
            /\ IsNullish(args.language) => sent.language = Str(DEFAULT_LANGUAGE)
       ELSE Absent(sent.language)
    /\ Absent(sent.country) \/ TextInBounds(sent.country, CountryLen, CountryLen)
    /\ Absent(sent.limit) \/ IntInBounds(sent.limit, 1, LimitMax)
    /\ Absent(sent.rate) \/ IntInBounds(sent.rate, 0, RateMax)
    /\ Absent(sent.sex) \/ sent.sex \in {Str(<<"m">>), Str(<<"f">>)}
    /\ CASE name \in {"forvo_word_pronunciations", "forvo_download_pronunciation"} ->
                InSeq(sent.order, PronunciationOrders)
         [] name = "forvo_language_list" -> InSeq(sent.order, LanguageOrders)
         [] OTHER -> Absent(sent.order)
    /\ pc = "awaitApi" => url.q = sent

\* an argument as given is outside the claim's bounds (undefined and null are absent;
\* a value counts as the validators read it: trimmed, String(), Number())
TextOut(v, min, max) ==
    ~(v.t = "string" /\ Len(Trim(v.v)) >= min /\ Len(Trim(v.v)) <= max)
IntOut(v, min, max) == ~IsNullish(v) /\ ~IntInBounds(JsNumber(v), min, max)
LanguageOut(v) ==
    /\ ~IsNullish(v)
    /\ (Len(Trim(JsString(v))) < LanguageMin \/ Len(Trim(JsString(v))) > LanguageMax)

OtherArgOutOfBounds ==
    \/ TakesWord /\ TextOut(args.word, 1, StringMaxLen)
    \/ name = "forvo_search_words" /\ TextOut(args.search, 1, StringMaxLen)
    \/ TakesLanguage /\ LanguageOut(args.language)
    \/ name \in {"forvo_word_pronunciations", "forvo_search_words"}
          /\ IntOut(args.limit, 1, LimitMax)
    \/ name = "forvo_word_pronunciations" /\ IntOut(args.min_rate, 0, RateMax)
    \/ name \in {"forvo_word_pronunciations", "forvo_download_pronunciation"}
          /\ ~IsNullish(args.sex) /\ args.sex \notin {Str(<<"m">>), Str(<<"f">>)}
    \/ name = "forvo_word_pronunciations"
          /\ ~IsNullish(args.order) /\ ~InSeq(args.order, PronunciationOrders)
    \/ name = "forvo_language_list"
          /\ ~IsNullish(args.order) /\ ~InSeq(args.order, LanguageOrders)
    \/ name = "forvo_language_list"
          /\ IntOut(args.min_pronunciations, 0, MinPronunciationsMax)

CountryOutOfBounds ==
    /\ name = "forvo_word_pronunciations"
    /\ ~IsNullish(args.country)
    /\ TextOut(args.country, CountryLen, CountryLen)

ArgumentNames ==
    {"word", "search", "language", "sex", "order", "limit", "min_rate", "country",
     "min_pronunciations"}

FailsValidationUnsent ==
    /\ phase = "Failure"
    /\ requests = 0 /\ req = "none" /\ promise = NoPromise
    /\ IsEnvelope(response) /\ response.isError
    /\ TextOf(response).error.subject \in ArgumentNames

Dispatched == name \in RegisteredTools /\ phase # "Idle" /\ pc # "entry"

\* C5 as stated: a request is issued only with every value within its bounds, and
\* any argument out of bounds fails the call with a validation error, no request made.
C5_OutOfBoundsNeverSent ==
    Dispatched =>
        /\ requests > 0 => SentInBounds
        /\ (OtherArgOutOfBounds \/ CountryOutOfBounds) => FailsValidationUnsent

\* C5 amended: as stated, except that a falsy country (the empty string, 0, false)
\* counts as absent: it is neither validated nor sent, and the call goes on.
C5_OutOfBoundsNeverSentButFalsyCountry ==
    Dispatched =>
        /\ requests > 0 => SentInBounds
        /\ (OtherArgOutOfBounds \/ (CountryOutOfBounds /\ Truthy(args.country)))
              => FailsValidationUnsent
        /\ (~OtherArgOutOfBounds /\ ~Truthy(args.country) /\ ~KeyMissing)
              => (requests >= 1 /\ Absent(sent.country))

\* C5 witness: a padded 200-character word goes out trimmed, an empty country is dropped
C5_Witness ==
    /\ name = "forvo_word_pronunciations"
    /\ pc = "awaitApi" /\ requests = 1
    /\ args.word = Pad(1, StringMaxLen, 1) /\ sent.word = Pad(0, StringMaxLen, 0)
    /\ args.country = Str(<<>>) /\ Absent(sent.country)
    /\ args.limit = Str(<<"7">>) /\ sent.limit = Num(7)

(* C9: redirect transparency *)

MaxHops == 3

\* the one answer of a resource of the little web
Answer(u) == CHOOSE h \in Upstream(u) : TRUE

\* a Location resolved against the URL that answered with it (RFC 3986, 5.2)
ResolveLocation(base, location) ==
    IF location.form = "relative" THEN [location EXCEPT !.form = base.form] ELSE location

\* the URL a chain of redirects ends in, following at most n of them
RECURSIVE Final(_, _)
Final(u, n) ==
    IF ~IsRedirect(Answer(u)) THEN u
    ELSE IF n = 0 THEN NoUrl
    ELSE Final(ResolveLocation(u, Answer(u).location), n - 1)

\* failures a direct request to the final URL can meet as well
TransportFailure ==
    /\ promise.state = "rejected"
    /\ \/ promise.err = TimeoutError
       \/ promise.err.text \in {"aborted", "socket hang up"}

\* C9: when the redirects from the first URL end in a response R that is not a
\* redirect, a settled rawGet has resolved with the status and the bytes of R, as a
\* direct request to the final URL does; it fails only as that request can fail.
C9_RedirectTransparency ==
    (pc = "rawGet" /\ Settled /\ Final(start, MaxHops) # NoUrl /\ ~TransportFailure) =>
        LET final == Final(start, MaxHops) IN
        /\ promise.state = "resolved"
        /\ promise.status = Answer(final).status
        /\ promise.body \in Bodies(final, Answer(final).status)
        /\ ~IsRedirect(Answer(final))

\* C9: a chain through an absolute Location has ended in the bytes of the final resource
C9_FollowedAbsolute ==
    /\ pc = "rawGet" /\ start = Url("https", "moved")
    /\ promise = Resolve(200, Text("bytes"))

(* C10: timeout liveness *)

\* C10: every call to rawGet settles
C10_RawGetSettles == (pc = "rawGet") ~> Settled

\* C10: a call that ran past the deadline has failed with the timeout error
C10_PastDeadlineIsTimeout ==
    (pc = "rawGet" /\ Settled /\ elapsed > TicksPerTimeout) => promise = Reject(TimeoutError)

(* C11: batch download *)

BatchDone == batch.state = "done" /\ Len(batch.words) > 0

\* the provider sent the audio of the item: a 2xx response, not the placeholder
GotAudio(a) == a.kind = "response" /\ Is2xx(a.status) /\ a.bytes >= PlaceholderBytes

\* the entry an item has on its own: its word, and its audio or its error message
OwnEntry(e, w, a) ==
    /\ e.word = w.kanji
    /\ IF GotAudio(a)
       THEN e.success /\ e.error = "" /\ e.audio = [of |-> w.kanji, reading |-> w.kana,
                                                     bytes |-> a.bytes]
       ELSE /\ ~e.success /\ e.audio.bytes = 0
            /\ e.error = CASE a.kind = "timeout" -> "Request timed out"
                           [] ~Is2xx(a.status) -> "HTTP error"
                           [] OTHER -> "Audio not found"

\* C11: whatever the order in which the N downloads completed and whichever of them
\* failed, the payload has total = N and succeeded + failed = N, and one entry per
\* word at the word's position, holding that word's audio or that word's error; no
\* failure aborts the batch or changes another item's entry.
C11_BatchPayload ==
    BatchDone =>
        LET N == Len(batch.words)
            p == batch.payload
        IN  /\ ~p.isError
            /\ p.total = N
            /\ p.succeeded + p.failed = N
            /\ DOMAIN p.results = 1..N
            /\ p.succeeded = Cardinality({ i \in 1..N : GotAudio(batch.tasks[i].answer) })
            /\ \A i \in 1..N : OwnEntry(p.results[i], batch.words[i], batch.tasks[i].answer)

\* C11 witness: three items, the second failed, the last completed first
C11_Witness ==
    /\ BatchDone
    /\ Len(batch.words) = 3
    /\ batch.finished = <<3, 1, 2>>
    /\ batch.words[1] # batch.words[3]
    /\ batch.payload.total = 3 /\ batch.payload.succeeded = 2 /\ batch.payload.failed = 1
    /\ ~batch.payload.results[2].success /\ batch.payload.results[2].error = "HTTP error"
    /\ batch.payload.results[1].success /\ batch.payload.results[3].success

(* C12: forvo_word_pronunciations and its limit *)

\* forvo_word_pronunciations has answered with a list of pronunciations
PronunciationsReturned ==
    /\ name = "forvo_word_pronunciations"
    /\ phase = "Success"
    /\ IsEnvelope(response)
    /\ TextOf(response).format = "json"

\* C12: whatever the provider answered, the count field and the length of the
\* returned items list do not exceed the validated limit (5 when limit is absent).
C12_AtMostLimit ==
    PronunciationsReturned =>
        /\ sent.limit.t = "number"
        /\ IsNullish(args.limit) => sent.limit = Num(5)
        /\ TextOf(response).count <= sent.limit.v
        /\ Len(TextOf(response).items) <= sent.limit.v

\* C12: a list within the limit was returned, its count the length of the list
C12_WithinLimitReturned ==
    /\ PronunciationsReturned
    /\ args.limit = Num(1) /\ sent.limit = Num(1)
    /\ TextOf(response).count = 1 /\ Len(TextOf(response).items) = 1

====
